---- MODULE Spec2Model ----
(***************************************************************************)
(* PushToFolders (src/src/main.cpp): a command line utility that moves     *)
(* each image file into a sibling folder named after the file's stem and   *)
(* keeps an append-mode log file.                                          *)
(*                                                                         *)
(* The model has the file system and the log file as persistent state, a   *)
(* sequence of invocations of runApplication over them, and inside an      *)
(* invocation one step per call of moveFileToFolder.  File names are       *)
(* sequences of one-character strings so that extension(), stem() and      *)
(* toLowerCopy() are computed the way the code computes them.              *)
(***************************************************************************)
EXTENDS Integers, Sequences, FiniteSets, TLC

(***************************************************************************)
(* Bounds of the model.                                                    *)
(***************************************************************************)
MaxRuns == 2    \* invocations in one behaviour
MaxArgs == 2    \* arguments over all the invocations of one behaviour
MaxCalls == 2   \* direct calls of moveFileToFolder in one behaviour

(***************************************************************************)
(* Characters and names.                                                   *)
(***************************************************************************)
UpperChars == <<"A","B","C","D","E","F","G","H","I","J","K","L","M",
                "N","O","P","Q","R","S","T","U","V","W","X","Y","Z">>
LowerChars == <<"a","b","c","d","e","f","g","h","i","j","k","l","m",
                "n","o","p","q","r","s","t","u","v","w","x","y","z">>

\* std::tolower / std::towlower on one character
ToLowerChar(ch) ==
    IF \E i \in DOMAIN UpperChars : UpperChars[i] = ch
    THEN LowerChars[CHOOSE i \in DOMAIN UpperChars : UpperChars[i] = ch]
    ELSE ch

\* a lower-casing that leaves the text as it is
toLowerCopyKeepsCase(text) == text

toLowerCopy(text) == [i \in DOMAIN text |-> ToLowerChar(text[i])]

kExtensions ==
    { <<".","j","p","g">>, <<".","j","p","e","g">>, <<".","p","n","g">>,
      <<".","b","m","p">>, <<".","w","e","b","p">> }

\* position of the last '.' of a file name, 0 when there is none
LastDot(name) ==
    IF \E i \in DOMAIN name : name[i] = "."
    THEN CHOOSE i \in DOMAIN name :
            name[i] = "." /\ \A j \in DOMAIN name : j > i => name[j] # "."
    ELSE 0

\* fs::path::extension() of a file name: empty for ".", ".." and for a name
\* whose only dot is its first character
Extension(name) ==
    IF name = <<".">> \/ name = <<".", ".">> \/ LastDot(name) <= 1
    THEN <<>>
    ELSE SubSeq(name, LastDot(name), Len(name))

\* fs::path::stem() of a file name: the name without its extension
Stem(name) == SubSeq(name, 1, Len(name) - Len(Extension(name)))

(***************************************************************************)
(* Paths.  A path is [rel, comps]: rel says the string is relative to the  *)
(* working directory, comps are its components.                            *)
(***************************************************************************)
AbsPath(comps) == [rel |-> FALSE, comps |-> comps]
RelPath(comps) == [rel |-> TRUE, comps |-> comps]

Filename(p) == IF p.comps = <<>> THEN <<>> ELSE p.comps[Len(p.comps)]
ParentPath(p) ==
    [rel |-> p.rel,
     comps |-> IF p.comps = <<>> THEN <<>> ELSE SubSeq(p.comps, 1, Len(p.comps) - 1)]
Join(p, name) == [rel |-> p.rel, comps |-> Append(p.comps, name)]

isImageFile(path) == toLowerCopy(Extension(Filename(path))) \in kExtensions

(***************************************************************************)
(* The file system: a function from absolute component sequences to        *)
(* entries.  A regular file carries the place it was created at as its     *)
(* content, so that a move, an overwrite or a copy can be told apart.      *)
(***************************************************************************)
nD    == <<"d">>
nAPng == <<"a", ".", "p", "n", "g">>
nATxt == <<"a", ".", "t", "x", "t">>
nA    == <<"a">>
nBJpg == <<"b", ".", "J", "P", "G">>
nB    == <<"b">>
nAPngJpg == <<"a", ".", "p", "n", "g", ".", "j", "p", "g">>
nShowLong   == <<"-", "-", "s", "h", "o", "w", "-", "l", "o", "g">>
nShowShort  == <<"s", "h", "o", "w", "l", "o", "g">>
nClearLong  == <<"-", "-", "c", "l", "e", "a", "r", "-", "l", "o", "g">>
nClearShort == <<"c", "l", "e", "a", "r", "l", "o", "g">>

Cwd == <<>>

TopNames   == {nAPng, nATxt, nA, nBJpg, nB, nAPngJpg}
InnerPaths == {<<nD, nA, nAPng>>, <<nD, nA, nATxt>>, <<nD, nB, nBJpg>>}
\* where a.png.jpg goes once a.png is out of the way, and where d/a/a.png goes
DeepPaths  == {<<nD, nAPng, nAPngJpg>>, <<nD, nA, nA>>, <<nD, nA, nA, nAPng>>}
TokenPaths == {<<nShowLong>>, <<nShowShort>>, <<nClearLong>>, <<nClearShort>>}
Universe   == {<<>>, <<nD>>} \cup {<<nD, n>> : n \in TopNames}
                 \cup InnerPaths \cup DeepPaths \cup TokenPaths

Absent     == [kind |-> "none", data |-> <<>>]
Directory  == [kind |-> "dir", data |-> <<>>]
File(orig) == [kind |-> "file", data |-> orig]

Resolve(p) == IF p.rel THEN Cwd \o p.comps ELSE p.comps
EntryAt(f, p) == IF Resolve(p) \in DOMAIN f THEN f[Resolve(p)] ELSE Absent

exists(f, p)          == EntryAt(f, p).kind # "none"
is_directory(f, p)    == EntryAt(f, p).kind = "dir"
is_regular_file(f, p) == EntryAt(f, p).kind = "file"

\* the proper prefixes of a component sequence, and the sequence itself
Prefixes(c) == {SubSeq(c, 1, n) : n \in 0..Len(c)}

\* a creation that fails once the parent of dir holds a directory
create_directoriesFirstOnly(f, dir, ok) ==
    LET c       == Resolve(dir)
        crowded == \E q \in DOMAIN f :
                      /\ Len(q) = Len(c) /\ SubSeq(q, 1, Len(q) - 1) = SubSeq(c, 1, Len(c) - 1)
                      /\ f[q].kind = "dir"
        done    == ok /\ ~crowded /\ c \in DOMAIN f
    IN  [ok |-> done,
         fs |-> IF done THEN [f EXCEPT ![c] = Directory] ELSE f]

\* fs::create_directories / createDirectoriesWin32: creates dir and its missing
\* ancestors; ok is the operating system's answer to the creation itself
create_directories(f, dir, ok) ==
    LET c       == Resolve(dir)
        blocked == \E q \in Prefixes(c) : q \in DOMAIN f /\ f[q].kind \notin {"none", "dir"}
        done    == ok /\ ~blocked /\ c \in DOMAIN f
    IN  [ok |-> done,
         fs |-> IF done
                THEN [q \in DOMAIN f |->
                        IF q \in Prefixes(c) /\ f[q].kind = "none" THEN Directory ELSE f[q]]
                ELSE f]

\* a rename that copies and leaves the source behind
renameLeavesSource(f, src, dst, ok) ==
    LET s == Resolve(src)
        d == Resolve(dst)
    IN  IF ok /\ s \in DOMAIN f /\ d \in DOMAIN f
        THEN [ok |-> TRUE, fs |-> [f EXCEPT ![d] = f[s]]]
        ELSE [ok |-> FALSE, fs |-> f]

\* a rename that puts a new file at the destination instead of the source's
renameLosesContent(f, src, dst, ok) ==
    LET s == Resolve(src)
        d == Resolve(dst)
    IN  IF ok /\ s \in DOMAIN f /\ d \in DOMAIN f
        THEN [ok |-> TRUE, fs |-> [f EXCEPT ![s] = Absent, ![d] = File(d)]]
        ELSE [ok |-> FALSE, fs |-> f]

\* fs::rename / MoveFileExW onto a free destination: all or nothing
rename(f, src, dst, ok) ==
    LET s == Resolve(src)
        d == Resolve(dst)
    IN  IF ok /\ s \in DOMAIN f /\ d \in DOMAIN f
        THEN [ok |-> TRUE, fs |-> [f EXCEPT ![s] = Absent, ![d] = f[s]]]
        ELSE [ok |-> FALSE, fs |-> f]

(***************************************************************************)
(* Logger calls.  A call is what moveFileToFolder and the others hand to   *)
(* the Logger; the Logger turns it into a line when its stream is open.    *)
(***************************************************************************)
\* a logError that writes its line at the INFO level
ErrorCallAtInfoLevel(target, msg) == [level |-> "INFO", msg |-> msg, paths |-> <<target>>]

ErrorCall(target, msg) == [level |-> "ERROR", msg |-> msg, paths |-> <<target>>]
InfoCall(msg, paths)   == [level |-> "INFO", msg |-> msg, paths |-> paths]

\* ensureDirectory without the is_directory test
ensureDirectoryAnyKind(f, dir, mkOk) ==
    IF exists(f, dir)
    THEN [ok |-> TRUE, fs |-> f, calls |-> <<>>]
    ELSE LET made == create_directories(f, dir, mkOk)
         IN  IF ~made.ok
             THEN [ok |-> FALSE, fs |-> made.fs,
                   calls |-> <<ErrorCall(dir, "Failed to create folder")>>]
             ELSE [ok |-> TRUE, fs |-> made.fs, calls |-> <<>>]

\* ensureDirectory that removes the non-directory in its way before it fails
ensureDirectoryRemoves(f, dir, mkOk) ==
    IF exists(f, dir)
    THEN IF ~is_directory(f, dir)
         THEN [ok |-> FALSE, fs |-> [f EXCEPT ![Resolve(dir)] = Absent],
               calls |-> <<ErrorCall(dir, "A non-directory with the desired folder name already exists.")>>]
         ELSE [ok |-> TRUE, fs |-> f, calls |-> <<>>]
    ELSE LET made == create_directories(f, dir, mkOk)
         IN  IF ~made.ok
             THEN [ok |-> FALSE, fs |-> made.fs,
                   calls |-> <<ErrorCall(dir, "Failed to create folder")>>]
             ELSE [ok |-> TRUE, fs |-> made.fs, calls |-> <<>>]

ensureDirectory(f, dir, mkOk) ==
    IF exists(f, dir)
    THEN IF ~is_directory(f, dir)
         THEN [ok |-> FALSE, fs |-> f,
               calls |-> <<ErrorCall(dir, "A non-directory with the desired folder name already exists.")>>]
         ELSE [ok |-> TRUE, fs |-> f, calls |-> <<>>]
    ELSE LET made == create_directories(f, dir, mkOk)
         IN  IF ~made.ok
             THEN [ok |-> FALSE, fs |-> made.fs,
                   calls |-> <<ErrorCall(dir, "Failed to create folder")>>]
             ELSE [ok |-> TRUE, fs |-> made.fs, calls |-> <<>>]

DestinationFolder(filePath) == Join(ParentPath(filePath), Stem(Filename(filePath)))
DestinationFile(filePath)   == Join(DestinationFolder(filePath), Filename(filePath))

\* the test that guards the rename, never finding anything
DestinationNeverOccupied(f, destinationFile) == FALSE

\* the test that guards the rename: something is at the destination path
DestinationOccupied(f, destinationFile) == exists(f, destinationFile)

\* moveFileToFolder: mkOk and rnOk are the operating system's answers to the
\* folder creation and to the rename, should the call get that far
moveFileToFolder(f, filePath, mkOk, rnOk) ==
    IF ~exists(f, filePath)
    THEN [ret |-> FALSE, fs |-> f, calls |-> <<ErrorCall(filePath, "File does not exist.")>>]
    ELSE IF ~is_regular_file(f, filePath)
    THEN [ret |-> FALSE, fs |-> f, calls |-> <<ErrorCall(filePath, "Path is not a regular file.")>>]
    ELSE IF ~isImageFile(filePath)
    THEN [ret |-> FALSE, fs |-> f, calls |-> <<InfoCall("Skipping non-image file", <<filePath>>)>>]
    ELSE LET destinationFolder == DestinationFolder(filePath)
             destinationFile   == DestinationFile(filePath)
             ensured           == ensureDirectory(f, destinationFolder, mkOk)
         IN  IF ~ensured.ok
             THEN [ret |-> FALSE, fs |-> ensured.fs, calls |-> ensured.calls]
             ELSE IF DestinationOccupied(ensured.fs, destinationFile)
             THEN [ret |-> FALSE, fs |-> ensured.fs,
                   calls |-> <<ErrorCall(destinationFile, "Destination file already exists.")>>]
             ELSE LET moved == rename(ensured.fs, filePath, destinationFile, rnOk)
                  IN  IF ~moved.ok
                      THEN [ret |-> FALSE, fs |-> moved.fs,
                            calls |-> <<ErrorCall(destinationFile, "Failed to move file")>>]
                      ELSE [ret |-> TRUE, fs |-> moved.fs,
                            calls |-> <<InfoCall("Moved", <<filePath, destinationFolder>>)>>]

(***************************************************************************)
(* The log file and the Logger's stream.  The stream is opened in append   *)
(* mode and is buffered: a line reaches the file when the stream is        *)
(* closed by the Logger's destructor.  logPerm is what the operating       *)
(* system allows on the log file: "rw" read and write (and create), "ro"   *)
(* read only, "none" nothing.                                              *)
(***************************************************************************)
NoLog        == [present |-> FALSE, lines |-> <<>>]
LogOf(lines) == [present |-> TRUE, lines |-> lines]

RunMarker(t)  == [level |-> "RUN", msg |-> "Run started", paths |-> <<>>, time |-> t]
Line(call, t) == [level |-> call.level, msg |-> call.msg, paths |-> call.paths, time |-> t]

\* std::ofstream(path, std::ios::app): creates the file when it is missing
OpenAppend(lf, perm) ==
    IF perm = "rw"
    THEN [open |-> TRUE, file |-> LogOf(lf.lines)]
    ELSE [open |-> FALSE, file |-> lf]

\* Logger::Logger: opens the stream and buffers the run-start marker
LoggerCtor(lf, perm, t) ==
    LET o == OpenAppend(lf, perm)
    IN  [open |-> o.open, file |-> o.file,
         buf |-> IF o.open THEN <<RunMarker(t)>> ELSE <<>>]

\* Logger::logError / Logger::logInfo for a sequence of calls
LogCalls(open, b, calls, t) ==
    IF open THEN b \o [i \in DOMAIN calls |-> Line(calls[i], t)] ELSE b

\* a stream that rewrites the file with what is buffered
LoggerDtorRewrites(lf, open, b) == IF open THEN LogOf(b) ELSE lf

\* ~Logger: closing the stream appends what is buffered at the end of the file
LoggerDtor(lf, open, b) == IF open THEN LogOf(lf.lines \o b) ELSE lf

\* readFileContents: nullopt when the file cannot be opened for reading
readFileContents(lf, perm) ==
    IF lf.present /\ perm # "none"
    THEN [has |-> TRUE, lines |-> lf.lines]
    ELSE [has |-> FALSE, lines |-> <<>>]

\* clearLogFile: std::ofstream(path, std::ios::trunc)
clearLogFile(lf, perm) ==
    IF perm = "rw"
    THEN [ok |-> TRUE, file |-> LogOf(<<>>)]
    ELSE [ok |-> FALSE, file |-> lf]

showLogLong   == RelPath(<<nShowLong>>)
showLogShort  == AbsPath(<<nShowShort>>)
clearLogLong  == RelPath(<<nClearLong>>)
clearLogShort == AbsPath(<<nClearShort>>)

IsShowToken(a)  == a = showLogLong \/ a = showLogShort
IsClearToken(a) == a = clearLogLong \/ a = clearLogShort

(***************************************************************************)
(* State.                                                                  *)
(***************************************************************************)
VARIABLES
    fs,            \* the file system
    logFile,       \* the persisted log file
    logPerm,       \* what the operating system allows on the log file
    pc,            \* "idle" between invocations, "files" / "scan" inside one,
                   \* "mover" when moveFileToFolder is driven directly
    args,          \* the argument list of the running invocation
    stream,        \* Logger::stream_ is open
    buf,           \* lines written to the stream and not yet in the file
    idx,           \* processFiles: index of the next argument
    pending,       \* processDirectory: entries the iterator has not yielded yet
    visited,       \* processDirectory: entries the iterator has yielded
    anyProcessed,  \* the local anyProcessed of processFiles / processDirectory
    logAtStart,    \* the log file as the invocation found it
    fsAtStart,     \* the file system as the invocation found it
    ec,            \* processDirectory: the error_code the directory_iterator set
    attempts,      \* the paths handed to moveFileToFolder, in call order
    relocated,     \* some call of this invocation took a file to its destination
    mv,            \* the latest call of moveFileToFolder: input, result, effect
    hist           \* one summary per finished invocation

vars == <<fs, logFile, logPerm, pc, args, stream, buf, idx, pending, visited,
          anyProcessed, logAtStart, fsAtStart, ec, attempts, relocated, mv, hist>>

NoPath == AbsPath(<<>>)
NoMove == [valid |-> FALSE, path |-> NoPath, mkOk |-> FALSE, rnOk |-> FALSE,
           ret |-> FALSE, pre |-> <<>>, post |-> <<>>, calls |-> <<>>]

\* the file system shows the file of path p taken to its destination
Relocated(f, g, p) ==
    /\ is_regular_file(f, p)
    /\ ~exists(g, p)
    /\ EntryAt(g, DestinationFile(p)) = EntryAt(f, p)

MoveRecord(f, p, mkOk, rnOk, r) ==
    [valid |-> TRUE, path |-> p, mkOk |-> mkOk, rnOk |-> rnOk,
     ret |-> r.ret, pre |-> f, post |-> r.fs, calls |-> r.calls]

(***************************************************************************)
(* Initial file systems.  d is a directory; under it the five names may be *)
(* missing, regular files or directories, and a directory a or b may       *)
(* already hold files of the names that would be moved into it.            *)
(***************************************************************************)
MkFS(c) ==
    [q \in Universe |->
        IF q = <<>> \/ q = <<nD>> THEN Directory
        ELSE IF q = <<nD, nAPng>> THEN
             (IF c.aPng = "file" THEN File(q) ELSE IF c.aPng = "dir" THEN Directory ELSE Absent)
        ELSE IF q = <<nD, nATxt>> THEN (IF c.aTxt = "file" THEN File(q) ELSE Absent)
        ELSE IF q = <<nD, nBJpg>> THEN (IF c.bJpg = "file" THEN File(q) ELSE Absent)
        ELSE IF q = <<nD, nAPngJpg>> THEN (IF c.aPngJpg = "file" THEN File(q) ELSE Absent)
        ELSE IF q = <<nD, nA>> THEN
             (IF c.a = "file" THEN File(q) ELSE IF c.a = "dir" THEN Directory ELSE Absent)
        ELSE IF q = <<nD, nB>> THEN (IF c.b = "dir" THEN Directory ELSE Absent)
        ELSE IF q \in InnerPaths THEN
             (IF q[3] \in c.inner /\ ((q[2] = nA /\ c.a = "dir") \/ (q[2] = nB /\ c.b = "dir"))
              THEN File(q) ELSE Absent)
        ELSE IF q = <<nShowLong>> THEN
             (IF c.tok = "file" THEN File(q) ELSE IF c.tok = "dir" THEN Directory ELSE Absent)
        ELSE Absent]

\* every combination, for the direct calls of moveFileToFolder
MoverChoices ==
    { c \in [aPng : {"none", "file", "dir"}, aTxt : {"none", "file"}, bJpg : {"none", "file"},
             a : {"none", "file", "dir"}, b : {"none", "dir"}, aPngJpg : {"none", "file"},
             inner : SUBSET {nAPng, nATxt, nBJpg}, tok : {"none"}] :
        /\ (c.a # "dir" => c.inner \cap {nAPng, nATxt} = {})
        /\ (c.b # "dir" => nBJpg \notin c.inner) }

\* the combinations the invocations start from
AppChoices ==
    { c \in MoverChoices :
        /\ c.aPng = "file" /\ c.aTxt = "file" /\ c.bJpg = "file" /\ c.b = "none"
        /\ c.aPngJpg = "none"
        /\ c.inner \subseteq {nAPng} }

InitCommon ==
    /\ args = <<>>
    /\ buf = <<>>
    /\ idx = 1
    /\ pending = {}
    /\ visited = {}
    /\ anyProcessed = FALSE
    /\ logAtStart = NoLog
    /\ fsAtStart = fs
    /\ ec = FALSE
    /\ attempts = <<>>
    /\ relocated = FALSE
    /\ mv = NoMove
    /\ hist = <<>>

OldLine == [level |-> "INFO", msg |-> "Moved", paths |-> <<>>, time |-> 0]

Init ==
    /\ fs \in {MkFS(c) : c \in AppChoices}
    /\ logFile \in {NoLog, LogOf(<<RunMarker(0), OldLine>>)}
    /\ logPerm \in {"rw", "ro", "none"}
    /\ (~logFile.present => logPerm # "none")
    /\ pc = "idle"
    /\ stream = FALSE
    /\ InitCommon

\* the combinations the folder scans start from: d may be empty, hold only
\* unsupported files, hold directories named like images
ScanChoices ==
    { c \in MoverChoices :
        c.b = "none" /\ c.aPngJpg = "none" /\ c.inner \subseteq {nAPng} }

InitScan ==
    /\ fs \in {MkFS(c) : c \in ScanChoices}
    /\ logFile = LogOf(<<RunMarker(0), OldLine>>)
    /\ logPerm = "rw"
    /\ pc = "idle"
    /\ stream = FALSE
    /\ InitCommon

\* the working directory may hold a file or a directory named --show-log
DispatchChoices ==
    { [c EXCEPT !.tok = t] : c \in {x \in AppChoices : x.a = "none"},
                            t \in {"none", "file", "dir"} }

InitDispatch ==
    /\ fs \in {MkFS(c) : c \in DispatchChoices}
    /\ logFile = LogOf(<<RunMarker(0), OldLine>>)
    /\ logPerm = "rw"
    /\ pc = "idle"
    /\ stream = FALSE
    /\ InitCommon

InitMove ==
    /\ fs \in {MkFS(c) : c \in MoverChoices}
    /\ logFile = NoLog
    /\ logPerm = "rw"
    /\ pc = "mover"
    /\ stream = TRUE
    /\ InitCommon

(***************************************************************************)
(* Invocations.                                                            *)
(***************************************************************************)
DirArg  == AbsPath(<<nD>>)
FileArgs == {AbsPath(<<nD, nAPng>>), AbsPath(<<nD, nBJpg>>), AbsPath(<<nD, nATxt>>)}
ArgSet  == {DirArg} \cup FileArgs \cup {showLogLong, clearLogLong}
ShortTokens == {showLogShort, clearLogShort}

\* the argument lists of at most k arguments; the short spellings of the tokens
\* are given alone
ArgListsUpTo(k) ==
    UNION {[1..n -> ArgSet] : n \in 0..k}
        \cup (IF k >= 1 THEN {<<t>> : t \in ShortTokens} ELSE {})

Now == Len(hist) + 1

RECURSIVE ArgsUsed(_)
ArgsUsed(h) == IF h = <<>> THEN 0 ELSE Len(h[1].args) + ArgsUsed(Tail(h))

\* an invocation can start: the bounds leave room for it
CanLaunch == pc = "idle" /\ Len(hist) < MaxRuns

\* the argument lists the bounds leave room for
ArgLists == ArgListsUpTo(MaxArgs - ArgsUsed(hist))

\* a failure answer of the operating system is drawn only where the call gets to
\* the operation that fails
Consulted(f, p, mkOk, rnOk) ==
    /\ (~mkOk => moveFileToFolder(f, p, mkOk, rnOk) # moveFileToFolder(f, p, TRUE, rnOk))
    /\ (~rnOk => moveFileToFolder(f, p, mkOk, rnOk) # moveFileToFolder(f, p, mkOk, TRUE))

\* what an invocation did: its arguments, the branch of runApplication taken,
\* how and with what status the process ended, what it printed (the log shown,
\* the messages said), the log and the file system before and after it
Summary(a, mode, status, exit, shown, said, before, after, moved) ==
    [args |-> a, mode |-> mode, status |-> status, exit |-> exit, shown |-> shown,
     said |-> said, logBefore |-> before, logAfter |-> after,
     fsBefore |-> fsAtStart, fsAfter |-> fs, ec |-> ec, moved |-> moved]

NotShown == [has |-> FALSE, lines |-> <<>>]

\* what returning from runApplication leaves behind
Return(summary) ==
    /\ hist' = Append(hist, summary)
    /\ pc' = "idle"
    /\ args' = <<>>
    /\ stream' = FALSE
    /\ buf' = <<>>
    /\ idx' = 1
    /\ pending' = {}
    /\ visited' = {}
    /\ anyProcessed' = FALSE
    /\ logAtStart' = NoLog
    /\ fsAtStart' = fs
    /\ ec' = FALSE
    /\ attempts' = <<>>
    /\ relocated' = FALSE
    /\ mv' = NoMove

\* return success ? 0 : 1
ExitCode(success) == IF success THEN 0 ELSE 1

\* runApplication with no argument: usage, return 1
Usage ==
    /\ CanLaunch
    /\ LET lg == LoggerCtor(logFile, logPerm, Now)
       IN  /\ logFile' = LoggerDtor(lg.file, lg.open, lg.buf)
           /\ Return(Summary(<<>>, "usage", "returned", 1, NotShown, <<"Usage">>,
                             logFile, logFile', FALSE))
    /\ UNCHANGED <<fs, logPerm>>

\* runApplication with one argument equal to a show-log token
ShowLog ==
    /\ CanLaunch
    /\ \E a \in ArgLists :
        /\ Len(a) = 1 /\ IsShowToken(a[1])
        /\ LET lg       == LoggerCtor(logFile, logPerm, Now)
               contents == readFileContents(lg.file, logPerm)
           IN  /\ logFile' = LoggerDtor(lg.file, lg.open, lg.buf)
               /\ Return(Summary(a, "show", "returned", ExitCode(contents.has), contents,
                                 IF contents.has THEN <<"Log file">> ELSE <<"No log file found">>,
                                 logFile, logFile', FALSE))
    /\ UNCHANGED <<fs, logPerm>>

\* runApplication with one argument equal to a clear-log token
ClearLog ==
    /\ CanLaunch
    /\ \E a \in ArgLists :
        /\ Len(a) = 1 /\ ~IsShowToken(a[1]) /\ IsClearToken(a[1])
        /\ LET lg      == LoggerCtor(logFile, logPerm, Now)
               cleared == clearLogFile(lg.file, logPerm)
           IN  /\ logFile' = LoggerDtor(cleared.file, lg.open, lg.buf)
               /\ Return(Summary(a, "clear", "returned", ExitCode(cleared.ok), NotShown,
                                 IF cleared.ok THEN <<"Log file cleared">>
                                 ELSE <<"Unable to clear log file">>,
                                 logFile, logFile', FALSE))
    /\ UNCHANGED <<fs, logPerm>>

IsLogCommand(a) == Len(a) = 1 /\ (IsShowToken(a[1]) \/ IsClearToken(a[1]))
\* a dispatch that scans whenever the first argument is a directory
IsFolderScanAnyArity(f, a) == Len(a) >= 1 /\ exists(f, a[1]) /\ is_directory(f, a[1])

IsFolderScan(f, a) == Len(a) = 1 /\ exists(f, a[1]) /\ is_directory(f, a[1])

\* the immediate entries of a directory
Entries(f, dir) ==
    {n \in TopNames \cup {nD} \cup {t[1] : t \in TokenPaths} :
        exists(f, Join(dir, n))}

\* runApplication with one argument that is a directory: processDirectory up to
\* the construction of the directory_iterator; openOk is the operating system's
\* answer to opening the listing (a failure leaves the iterator at its end)
StartScan ==
    /\ CanLaunch
    /\ \E a \in ArgLists, openOk \in BOOLEAN :
        /\ a # <<>> /\ ~IsLogCommand(a) /\ IsFolderScan(fs, a)
        /\ LET lg == LoggerCtor(logFile, logPerm, Now)
           IN  /\ logFile' = lg.file
               /\ stream' = lg.open
               /\ buf' = lg.buf
        /\ args' = a
        /\ pending' = IF openOk THEN Entries(fs, a[1]) ELSE {}
        /\ ec' = ~openOk
        /\ visited' = {}
        /\ pc' = "scan"
        /\ anyProcessed' = FALSE
        /\ logAtStart' = logFile
        /\ fsAtStart' = fs
        /\ attempts' = <<>>
        /\ relocated' = FALSE
    /\ UNCHANGED <<fs, logPerm, idx, mv, hist>>

\* the entries that came into the directory after the listing was opened: it is
\* unspecified whether the directory_iterator yields them
Unlisted(f, dir, listed, seen) == Entries(f, dir) \ (listed \cup seen)

\* an iterator that goes down into a directory and yields a file inside it
EntryPathRecursive(f, dir, e) ==
    IF is_directory(f, Join(dir, e))
          /\ \E n \in TopNames : is_regular_file(f, Join(Join(dir, e), n))
    THEN Join(Join(dir, e), CHOOSE n \in TopNames : is_regular_file(f, Join(Join(dir, e), n)))
    ELSE Join(dir, e)

\* entry.path() of the entry named e that the iterator over dir yields
EntryPath(f, dir, e) == Join(dir, e)

\* one round of the loop of processDirectory
ScanStep ==
    /\ pc = "scan" /\ ~ec
    /\ \E e \in pending \cup Unlisted(fs, args[1], pending, visited),
          mkOk \in BOOLEAN, rnOk \in BOOLEAN :
        LET entry == EntryPath(fs, args[1], e)
        IN  /\ Consulted(fs, entry, mkOk, rnOk)
            /\ (~(is_regular_file(fs, entry) /\ isImageFile(entry)) => mkOk /\ rnOk)
            /\ pending' = pending \ {e}
            /\ visited' = visited \cup {e}
            /\ IF is_regular_file(fs, entry) /\ isImageFile(entry)
               THEN LET r == moveFileToFolder(fs, entry, mkOk, rnOk)
                    IN  /\ fs' = r.fs
                        /\ buf' = LogCalls(stream, buf, r.calls, Now)
                        /\ anyProcessed' = (anyProcessed \/ r.ret)
                        /\ attempts' = Append(attempts, entry)
                        /\ relocated' = (relocated \/ Relocated(fs, r.fs, entry))
                        /\ mv' = MoveRecord(fs, entry, mkOk, rnOk, r)
               ELSE UNCHANGED <<fs, buf, anyProcessed, attempts, relocated, mv>>
    /\ UNCHANGED <<logFile, logPerm, pc, args, stream, idx, logAtStart, fsAtStart, ec, hist>>

\* the loop of processDirectory ends; runApplication returns
ScanFinish ==
    /\ pc = "scan" /\ pending = {}
    /\ logFile' = LoggerDtor(logFile, stream, buf)
    /\ Return(Summary(args, "scan", "returned", ExitCode(anyProcessed), NotShown,
                      IF anyProcessed THEN <<"Finished processing folder.">>
                      ELSE <<"No image files found", "Finished processing folder.">>,
                      logAtStart, logFile', relocated))
    /\ UNCHANGED <<fs, logPerm>>

\* directory_iterator::operator++ fails while the loop advances: the range-for
\* uses the throwing overload and nothing catches, so the process terminates;
\* whether the stack is unwound (and the stream closed) first is up to the build
ScanAdvanceFails ==
    /\ pc = "scan" /\ ~ec /\ visited # {}
    /\ \E unwound \in BOOLEAN :
        logFile' = IF unwound THEN LoggerDtor(logFile, stream, buf) ELSE logFile
    /\ Return(Summary(args, "scan", "aborted", -1, NotShown, <<>>,
                      logAtStart, logFile', relocated))
    /\ UNCHANGED <<fs, logPerm>>

\* runApplication with any other argument list: processFiles is entered
StartFiles ==
    /\ CanLaunch
    /\ \E a \in ArgLists :
        /\ a # <<>> /\ ~IsLogCommand(a) /\ ~IsFolderScan(fs, a)
        /\ LET lg == LoggerCtor(logFile, logPerm, Now)
           IN  /\ logFile' = lg.file
               /\ stream' = lg.open
               /\ buf' = lg.buf
        /\ args' = a
        /\ idx' = 1
        /\ pc' = "files"
        /\ anyProcessed' = FALSE
        /\ logAtStart' = logFile
        /\ fsAtStart' = fs
        /\ attempts' = <<>>
        /\ relocated' = FALSE
    /\ UNCHANGED <<fs, logPerm, pending, visited, ec, mv, hist>>

\* a loop that gives up at the first call that returns false
NextIndexStopsOnFailure(i, ret, n) == IF ret THEN i + 1 ELSE n + 1

\* the index processFiles goes on with after a call of moveFileToFolder
NextIndex(i, ret, n) == i + 1

\* one round of the loop of processFiles
FileStep ==
    /\ pc = "files" /\ idx <= Len(args)
    /\ \E mkOk \in BOOLEAN, rnOk \in BOOLEAN :
        LET r == moveFileToFolder(fs, args[idx], mkOk, rnOk)
        IN  /\ Consulted(fs, args[idx], mkOk, rnOk)
            /\ fs' = r.fs
            /\ buf' = LogCalls(stream, buf, r.calls, Now)
            /\ anyProcessed' = (anyProcessed \/ r.ret)
            /\ attempts' = Append(attempts, args[idx])
            /\ relocated' = (relocated \/ Relocated(fs, r.fs, args[idx]))
            /\ mv' = MoveRecord(fs, args[idx], mkOk, rnOk, r)
            /\ idx' = NextIndex(idx, r.ret, Len(args))
    /\ UNCHANGED <<logFile, logPerm, pc, args, stream, pending, visited, logAtStart,
                   fsAtStart, ec, hist>>

\* the loop of processFiles ends; runApplication returns
FilesFinish ==
    /\ pc = "files" /\ idx > Len(args)
    /\ logFile' = LoggerDtor(logFile, stream, buf)
    /\ Return(Summary(args, "files", "returned", ExitCode(anyProcessed), NotShown,
                      IF anyProcessed THEN <<"Finished processing files.">>
                      ELSE <<"No image files were processed.", "Finished processing files.">>,
                      logAtStart, logFile', relocated))
    /\ UNCHANGED <<fs, logPerm>>

Next ==
    \/ Usage
    \/ ShowLog
    \/ ClearLog
    \/ StartScan
    \/ ScanStep
    \/ ScanFinish
    \/ ScanAdvanceFails
    \/ StartFiles
    \/ FileStep
    \/ FilesFinish

Spec == Init /\ [][Next]_vars

\* folder scans only, over more kinds of directory
NextScan ==
    \/ StartScan
    \/ ScanStep
    \/ ScanFinish
    \/ ScanAdvanceFails

SpecScan == InitScan /\ [][NextScan]_vars

\* the same invocations, started where a file or a directory may have the name
\* of a log command
SpecDispatch == InitDispatch /\ [][Next]_vars

(***************************************************************************)
(* moveFileToFolder driven directly, one call after the other.             *)
(***************************************************************************)
MoverPaths == {AbsPath(<<nD, n>>) : n \in TopNames} \cup {AbsPath(<<nD, nA, nAPng>>)}

CallMover ==
    /\ pc = "mover" /\ Len(attempts) < MaxCalls
    /\ \E p \in MoverPaths, mkOk \in BOOLEAN, rnOk \in BOOLEAN :
        LET r == moveFileToFolder(fs, p, mkOk, rnOk)
        IN  /\ Consulted(fs, p, mkOk, rnOk)
            /\ fs' = r.fs
            /\ buf' = LogCalls(stream, buf, r.calls, Now)
            /\ attempts' = Append(attempts, p)
            /\ relocated' = (relocated \/ Relocated(fs, r.fs, p))
            /\ mv' = MoveRecord(fs, p, mkOk, rnOk, r)
    /\ UNCHANGED <<logFile, logPerm, pc, args, stream, idx, pending, visited,
                   anyProcessed, logAtStart, fsAtStart, ec, hist>>

NextMove == CallMover

SpecMove == InitMove /\ [][NextMove]_vars

\* the loop of processFiles (and of processDirectory) over the files of seq in
\* that order, the operating system carrying out every creation and rename
RECURSIVE RunInOrder(_, _)
RunInOrder(f, seq) ==
    IF seq = <<>>
    THEN [fs |-> f, moved |-> {}]
    ELSE LET r    == moveFileToFolder(f, Head(seq), TRUE, TRUE)
             rest == RunInOrder(r.fs, Tail(seq))
         IN  [fs |-> rest.fs,
              moved |-> rest.moved \cup (IF r.ret THEN {Head(seq)} ELSE {})]

(***************************************************************************)
(* One call of moveFileToFolder, one file-system query or operation per    *)
(* step, next to another process that may create the destination folder   *)
(* or a file at the destination path at any moment.  pc is the place of    *)
(* the call: "source" (lines 281-296), "folder" (250-257), "create"        *)
(* (259-276), "destination" (303-308), "rename" (310-331), "returned".     *)
(***************************************************************************)
\* what the other process makes
OtherDirectory == [kind |-> "dir", data |-> <<"other">>]
OtherFile      == [kind |-> "file", data |-> <<"other">>]

RaceChoices ==
    { c \in MoverChoices :
        /\ c.aTxt = "file" /\ c.bJpg = "file" /\ c.aPngJpg = "none"
        /\ c.inner \subseteq {nAPng} }

RacePaths == {AbsPath(<<nD, nAPng>>), AbsPath(<<nD, nBJpg>>), AbsPath(<<nD, nATxt>>)}

InitRace ==
    /\ fs \in {MkFS(c) : c \in RaceChoices}
    /\ logFile = NoLog
    /\ logPerm = "rw"
    /\ pc = "source"
    /\ stream = TRUE
    /\ \E p \in RacePaths : args = <<p>>
    /\ buf = <<>>
    /\ idx = 1
    /\ pending = {}
    /\ visited = {}
    /\ anyProcessed = FALSE
    /\ logAtStart = NoLog
    /\ fsAtStart = fs
    /\ ec = FALSE
    /\ attempts = <<>>
    /\ relocated = FALSE
    /\ mv = NoMove
    /\ hist = <<>>

\* the call as it stands: seen is the file system the exists test of
\* ensureDirectory looked at, checked the one the exists test on the
\* destination file looked at
CallInProgress(f, p) ==
    [valid |-> FALSE, path |-> p, mkOk |-> TRUE, rnOk |-> TRUE, ret |-> FALSE,
     pre |-> f, post |-> f, calls |-> <<>>, seen |-> <<>>, checked |-> <<>>]

\* the call returns r with the Logger calls it made, the file system being g
Returns(m, r, calls, g) ==
    /\ mv' = [m EXCEPT !.valid = TRUE, !.ret = r, !.calls = calls, !.post = g]
    /\ buf' = LogCalls(stream, buf, calls, Now)
    /\ attempts' = Append(attempts, m.path)
    /\ relocated' = (relocated \/ r)
    /\ pc' = "returned"

RaceRest == <<logFile, logPerm, args, stream, idx, pending, visited, anyProcessed,
              logAtStart, fsAtStart, ec, hist>>

\* lines 281-296: the tests on the source path
CheckSource ==
    /\ pc = "source"
    /\ LET filePath == args[1]
           m        == CallInProgress(fs, filePath)
       IN  IF ~exists(fs, filePath)
           THEN Returns(m, FALSE, <<ErrorCall(filePath, "File does not exist.")>>, fs)
           ELSE IF ~is_regular_file(fs, filePath)
           THEN Returns(m, FALSE, <<ErrorCall(filePath, "Path is not a regular file.")>>, fs)
           ELSE IF ~isImageFile(filePath)
           THEN Returns(m, FALSE, <<InfoCall("Skipping non-image file", <<filePath>>)>>, fs)
           ELSE /\ mv' = m
                /\ pc' = "folder"
                /\ UNCHANGED <<buf, attempts, relocated>>
    /\ UNCHANGED fs
    /\ UNCHANGED RaceRest

\* ensureDirectory, lines 250-257: the tests on the folder path
ObserveFolder ==
    /\ pc = "folder"
    /\ LET dir == DestinationFolder(mv.path)
           m   == [mv EXCEPT !.seen = fs]
       IN  IF exists(fs, dir)
           THEN IF ~is_directory(fs, dir)
                THEN Returns(m, FALSE,
                             <<ErrorCall(dir, "A non-directory with the desired folder name already exists.")>>, fs)
                ELSE /\ mv' = m
                     /\ pc' = "destination"
                     /\ UNCHANGED <<buf, attempts, relocated>>
           ELSE /\ mv' = m
                /\ pc' = "create"
                /\ UNCHANGED <<buf, attempts, relocated>>
    /\ UNCHANGED fs
    /\ UNCHANGED RaceRest

\* a creation that fails when the directory is there already
CreateStepExclusive(f, dir, ok) ==
    IF exists(f, dir) THEN [ok |-> FALSE, fs |-> f] ELSE create_directories(f, dir, ok)

\* the creation as it goes when the directory may have appeared meanwhile:
\* fs::create_directories reports no error for an existing directory,
\* createDirectoriesWin32 returns true for an existing path and passes over
\* ERROR_ALREADY_EXISTS
CreateStep(f, dir, ok) ==
    IF is_directory(f, dir) THEN [ok |-> TRUE, fs |-> f] ELSE create_directories(f, dir, ok)

\* ensureDirectory, lines 259-276: the creation of the folder
CreateFolder ==
    /\ pc = "create"
    /\ \E mkOk \in BOOLEAN :
        LET dir  == DestinationFolder(mv.path)
            made == CreateStep(fs, dir, mkOk)
            m    == [mv EXCEPT !.mkOk = mkOk]
        IN  /\ (~mkOk => ~is_directory(fs, dir))
            /\ fs' = made.fs
            /\ IF ~made.ok
               THEN Returns(m, FALSE, <<ErrorCall(dir, "Failed to create folder")>>, made.fs)
               ELSE /\ mv' = m
                    /\ pc' = "destination"
                    /\ UNCHANGED <<buf, attempts, relocated>>
    /\ UNCHANGED RaceRest

\* lines 303-308: the test on the destination path
CheckDestination ==
    /\ pc = "destination"
    /\ LET destinationFile == DestinationFile(mv.path)
           m               == [mv EXCEPT !.checked = fs]
       IN  IF DestinationOccupied(fs, destinationFile)
           THEN Returns(m, FALSE, <<ErrorCall(destinationFile, "Destination file already exists.")>>, fs)
           ELSE /\ mv' = m
                /\ pc' = "rename"
                /\ UNCHANGED <<buf, attempts, relocated>>
    /\ UNCHANGED fs
    /\ UNCHANGED RaceRest

\* lines 310-331: the rename.  Onto a destination that has become occupied,
\* fs::rename (line 321) replaces the file that is there, MoveFileExW without
\* MOVEFILE_REPLACE_EXISTING (line 313) fails: replaces is what the build does
RenameStep ==
    /\ pc = "rename"
    /\ \E rnOk \in BOOLEAN, replaces \in BOOLEAN :
        LET destinationFile == DestinationFile(mv.path)
            occupied        == exists(fs, destinationFile)
            moved           == rename(fs, mv.path, destinationFile,
                                      rnOk /\ (occupied => replaces))
            m               == [mv EXCEPT !.rnOk = rnOk]
        IN  /\ (~occupied => replaces)
            /\ (occupied /\ ~replaces => rnOk)
            /\ fs' = moved.fs
            /\ IF ~moved.ok
               THEN Returns(m, FALSE, <<ErrorCall(destinationFile, "Failed to move file")>>, moved.fs)
               ELSE Returns(m, TRUE,
                            <<InfoCall("Moved", <<mv.path, DestinationFolder(mv.path)>>)>>, moved.fs)
    /\ UNCHANGED RaceRest

\* the other process makes the folder the call is about to need
OtherCreatesFolder ==
    /\ pc \in {"source", "folder", "create", "destination", "rename"}
    /\ isImageFile(args[1])
    /\ ~exists(fs, DestinationFolder(args[1]))
    /\ fs' = [fs EXCEPT ![Resolve(DestinationFolder(args[1]))] = OtherDirectory]
    /\ UNCHANGED <<pc, mv, buf, attempts, relocated>>
    /\ UNCHANGED RaceRest

\* the other process puts a file at the path the call is about to move to
OtherCreatesFile ==
    /\ pc \in {"source", "folder", "create", "destination", "rename"}
    /\ isImageFile(args[1])
    /\ is_directory(fs, DestinationFolder(args[1]))
    /\ ~exists(fs, DestinationFile(args[1]))
    /\ fs' = [fs EXCEPT ![Resolve(DestinationFile(args[1]))] = OtherFile]
    /\ UNCHANGED <<pc, mv, buf, attempts, relocated>>
    /\ UNCHANGED RaceRest

NextRace ==
    \/ CheckSource
    \/ ObserveFolder
    \/ CreateFolder
    \/ CheckDestination
    \/ RenameStep
    \/ OtherCreatesFolder
    \/ OtherCreatesFile

SpecRace == InitRace /\ [][NextRace]_vars

(***************************************************************************)
(* isImageFile applied to one file name after the other.                   *)
(***************************************************************************)
ToUpperChar(ch) ==
    IF \E i \in DOMAIN LowerChars : LowerChars[i] = ch
    THEN UpperChars[CHOOSE i \in DOMAIN LowerChars : LowerChars[i] = ch]
    ELSE ch

\* every upper, lower and mixed case spelling of a text
Spellings(text) ==
    {sp \in [DOMAIN text -> {text[i] : i \in DOMAIN text}
                             \cup {ToUpperChar(text[i]) : i \in DOMAIN text}] :
        \A i \in DOMAIN text : sp[i] \in {text[i], ToUpperChar(text[i])}}

ImageStems == {<<"a">>, <<"a", ".", "p", "n", "g">>}

\* stem.ext for every spelling of the five extensions
ImageNames == {st \o sp : st \in ImageStems, sp \in UNION {Spellings(e) : e \in kExtensions}}

\* other extensions, no extension, an extension that only starts or ends like a
\* supported one, a supported one before the final extension, and names that
\* are nothing but a dot and letters
OtherNames ==
    { <<"a", ".", "t", "x", "t">>, <<"a", ".", "g", "i", "f">>, <<"a">>, <<"p", "n", "g">>,
      <<"a", ".">>, <<"a", ".", "p", "n">>, <<"a", ".", "p", "n", "g", "x">>,
      <<"a", ".", "x", "p", "n", "g">>, <<"a", ".", "j", "p">>, <<"a", ".", "J", "P", "E">>,
      <<"a", ".", "p", "n", "g", ".", "t", "x", "t">>, <<"a", ".", "J", "P", "G", ".", "b", "a", "k">>,
      <<"a", ".", "w", "e", "b", "p", ".">>, <<".", "p", "n", "g">>, <<".", "J", "P", "G">>,
      <<".">>, <<".", ".">>, <<"a", "j", "p", "g">>, <<"a", ".", "t", "i", "f", "f">> }

ClassifyPaths == {AbsPath(<<nD, n>>) : n \in ImageNames \cup OtherNames}

InitClassify ==
    /\ fs \in {MkFS(c) : c \in {x \in AppChoices : x.a = "none"}}
    /\ logFile = NoLog
    /\ logPerm = "rw"
    /\ pc = "classify"
    /\ stream = FALSE
    /\ \E p \in ClassifyPaths : args = <<p>>
    /\ buf = <<>>
    /\ idx = 1
    /\ pending = {}
    /\ visited = {}
    /\ anyProcessed = FALSE
    /\ logAtStart = NoLog
    /\ fsAtStart = fs
    /\ ec = FALSE
    /\ attempts = <<>>
    /\ relocated = FALSE
    /\ mv = NoMove
    /\ hist = <<>>

\* isImageFile(args[1]); its result is kept in anyProcessed
Classify ==
    /\ pc = "classify"
    /\ anyProcessed' = isImageFile(args[1])
    /\ pc' = "classified"
    /\ UNCHANGED <<fs, logFile, logPerm, args, stream, buf, idx, pending, visited,
                   logAtStart, fsAtStart, ec, attempts, relocated, mv, hist>>

NextClassify == Classify

SpecClassify == InitClassify /\ [][NextClassify]_vars

\* the five extensions, written out, and the names that end in a spelling of one
ExtensionsInWords ==
    { <<".", "j", "p", "g">>, <<".", "j", "p", "e", "g">>, <<".", "p", "n", "g">>,
      <<".", "b", "m", "p">>, <<".", "w", "e", "b", "p">> }

SameLetter(x, y) ==
    \/ x = y
    \/ \E i \in DOMAIN LowerChars : {x, y} = {LowerChars[i], UpperChars[i]}

\* name is a non-empty stem followed by ext in some spelling
EndsInSpellingOf(name, ext) ==
    /\ Len(name) > Len(ext)
    /\ \A i \in 1..Len(ext) : SameLetter(name[Len(name) - Len(ext) + i], ext[i])

\* C12: isImageFile(path) is true exactly when the extension of the path, lower
\* cased, is .jpg, .jpeg, .png, .bmp or .webp: true for every upper, lower and
\* mixed spelling of the five, false for any other extension, for no extension and
\* for a supported extension that is not the final one; the call changes nothing
C12_ClassifierExact ==
    pc = "classified" =>
        /\ anyProcessed <=> (\E e \in ExtensionsInWords : EndsInSpellingOf(Filename(args[1]), e))
        /\ Filename(args[1]) \in ImageNames => anyProcessed
        /\ Filename(args[1]) \in OtherNames => ~anyProcessed
        /\ fs = fsAtStart /\ buf = <<>> /\ logFile = NoLog

\* a mixed-case spelling after a stem that itself holds a supported extension
\* was accepted
C12_Witness ==
    /\ pc = "classified" /\ anyProcessed
    /\ Filename(args[1]) = <<"a", ".", "p", "n", "g", ".", "W", "e", "b", "P">>

(***************************************************************************)
(* Properties of moveFileToFolder, read off the latest call mv.            *)
(***************************************************************************)
\* the places of the latest call, as component sequences of the file system
MvSource == Resolve(mv.path)
MvParent == SubSeq(MvSource, 1, Len(MvSource) - 1)
MvName   == MvSource[Len(MvSource)]

\* the stem of each name of the model, written out
StemInWords(name) ==
    IF name \in {nAPng, nATxt, nA} THEN nA
    ELSE IF name \in {nBJpg, nB} THEN nB
    ELSE IF name = nAPngJpg THEN nAPng
    ELSE name

\* the extensions of the allow-list among the names of the model, written out
SupportedInWords(name) == name \in {nAPng, nBJpg, nAPngJpg}

MvFolder == Append(MvParent, StemInWords(MvName))
MvTarget == Append(MvFolder, MvName)

KindIn(f, q) == IF q \in DOMAIN f THEN f[q].kind ELSE "none"

\* (a) regular file, (b) supported extension, (c) the folder is a directory or
\* can be created, (d) nothing at the destination path
MvRegular   == KindIn(mv.pre, MvSource) = "file"
MvSupported == SupportedInWords(MvName)
MvFolderOk  == \/ KindIn(mv.pre, MvFolder) = "dir"
               \/ KindIn(mv.pre, MvFolder) = "none" /\ mv.mkOk
MvFree      == KindIn(mv.pre, MvTarget) = "none"
MvFour      == MvRegular /\ MvSupported /\ MvFolderOk /\ MvFree

\* C1 as stated: moveFileToFolder(p) moves the file (returns true) if and only if
\* p is a regular file, its extension is in the allow-list, the destination
\* folder is a directory or can be created, and nothing is at the destination path
C1_AsStated == mv.valid => (mv.ret <=> MvFour)

\* C1 amended: moveFileToFolder(p) returns true if and only if the four conditions
\* hold and the operating system carries out the rename
C1_MovedIffFourAndRenamed == mv.valid => (mv.ret <=> (MvFour /\ mv.rnOk))

\* the four conditions hold and the file was moved
C1_Witness == mv.valid /\ MvFour /\ mv.rnOk /\ mv.ret /\ KindIn(mv.pre, MvFolder) = "none"

MvSuccess ==
    /\ KindIn(mv.pre, MvSource) = "file"
    /\ mv.post[MvSource] = Absent
    /\ mv.post[MvTarget] = mv.pre[MvSource]

\* nothing inside the folder q
EmptyIn(f, q) ==
    \A r \in DOMAIN f : (Len(r) > Len(q) /\ SubSeq(r, 1, Len(q)) = q) => f[r] = Absent

MvFailure ==
    /\ mv.post[MvSource] = mv.pre[MvSource]
    /\ \A q \in Universe :
          \/ mv.post[q] = mv.pre[q]
          \/ /\ q = MvFolder
             /\ mv.pre[q] = Absent
             /\ mv.post[q] = Directory
             /\ EmptyIn(mv.post, q)

\* C2: every call of moveFileToFolder ends either in full success (file gone from
\* the source path, present with its content at the destination path) or in full
\* failure (source as it was, nothing new but at most an empty destination folder)
C2_AllOrNothing ==
    mv.valid => \/ mv.ret /\ MvSuccess /\ ~MvFailure
                \/ ~mv.ret /\ MvFailure /\ ~MvSuccess

\* a call failed after it had created the destination folder
C2_Witness ==
    /\ mv.valid /\ ~mv.ret
    /\ mv.pre[MvFolder] = Absent /\ mv.post[MvFolder] = Directory
    /\ KindIn(mv.post, MvSource) = "file"

ConflictCalls == <<ErrorCall(AbsPath(MvTarget), "Destination file already exists.")>>

C3_Outcome ==
    /\ ~mv.ret
    /\ mv.calls = ConflictCalls
    /\ KindIn(mv.post, MvSource) = "file"
    /\ mv.post = mv.pre

\* C3 as stated: if parent(p)/stem(p)/filename(p) exists when moveFileToFolder(p)
\* is called, the call fails with the destination-conflict error (false, one ERROR
\* entry), p is still present and unchanged and the destination entry is unchanged
C3_AsStated == (mv.valid /\ KindIn(mv.pre, MvTarget) # "none") => C3_Outcome

\* C3 amended: the same, for a path p that is a regular file with a supported
\* extension
C3_ConflictLeavesBoth ==
    (mv.valid /\ MvRegular /\ MvSupported /\ KindIn(mv.pre, MvTarget) # "none") => C3_Outcome

\* a supported regular file was handed over while its destination path was taken
C3_Witness ==
    mv.valid /\ MvRegular /\ MvSupported /\ KindIn(mv.pre, MvTarget) = "file" /\ ~mv.ret

\* C4: if parent(p)/stem(p) exists and is not a directory when moveFileToFolder is
\* called on a supported regular file p, the call returns false with one ERROR
\* entry naming the folder path and the file system is unchanged
C4_FolderIsFile ==
    (mv.valid /\ MvRegular /\ MvSupported /\ KindIn(mv.pre, MvFolder) \notin {"none", "dir"})
        => /\ ~mv.ret
           /\ Len(mv.calls) = 1
           /\ mv.calls[1].level = "ERROR"
           /\ mv.calls[1].paths = <<AbsPath(MvFolder)>>
           /\ mv.post = mv.pre

\* a supported regular file was handed over while a file had the folder's name
C4_Witness ==
    mv.valid /\ MvRegular /\ MvSupported /\ KindIn(mv.pre, MvFolder) = "file" /\ ~mv.ret

\* C5: a successful moveFileToFolder(F/name.ext) leaves the file at F/stem/name.ext,
\* F/stem being a directory that was absent or a directory before, and changes no
\* other entry of the file system
C5_MovedIntoStemFolder ==
    (mv.valid /\ mv.ret)
        => /\ mv.post[MvTarget] = mv.pre[MvSource]
           /\ mv.pre[MvSource].kind = "file"
           /\ mv.post[MvSource] = Absent
           /\ mv.pre[MvFolder] \in {Absent, Directory}
           /\ mv.post[MvFolder] = Directory
           /\ mv.pre[MvTarget] = Absent
           /\ \A q \in Universe \ {MvSource, MvFolder, MvTarget} : mv.post[q] = mv.pre[q]

\* a file was moved into a folder that existed and held another file
C5_Witness ==
    /\ mv.valid /\ mv.ret
    /\ mv.pre[MvFolder] = Directory
    /\ \E q \in Universe \ {MvTarget} :
          Len(q) = Len(MvTarget) /\ SubSeq(q, 1, Len(MvFolder)) = MvFolder /\ mv.pre[q] # Absent

\* the outcome of the latest call, told from the file system it found and the
\* answers of the operating system
MvOutcome ==
    IF KindIn(mv.pre, MvSource) = "none" THEN "not-found"
    ELSE IF KindIn(mv.pre, MvSource) # "file" THEN "not-a-file"
    ELSE IF ~MvSupported THEN "unsupported"
    ELSE IF KindIn(mv.pre, MvFolder) \notin {"none", "dir"} THEN "destination-is-file"
    ELSE IF KindIn(mv.pre, MvFolder) = "none" /\ ~mv.mkOk THEN "folder-creation-failed"
    ELSE IF KindIn(mv.pre, MvTarget) # "none" THEN "destination-conflict"
    ELSE IF ~mv.rnOk THEN "move-failed"
    ELSE "moved"

\* the severity and the paths the entry of each outcome has
SeverityInWords(outcome) == IF outcome \in {"unsupported", "moved"} THEN "INFO" ELSE "ERROR"

PathsInWords(outcome) ==
    IF outcome \in {"not-found", "not-a-file", "unsupported"} THEN <<AbsPath(MvSource)>>
    ELSE IF outcome \in {"destination-is-file", "folder-creation-failed"} THEN <<AbsPath(MvFolder)>>
    ELSE IF outcome \in {"destination-conflict", "move-failed"} THEN <<AbsPath(MvTarget)>>
    ELSE <<AbsPath(MvSource), AbsPath(MvFolder)>>

\* C13: every call of moveFileToFolder writes exactly one entry to the open log
\* stream: ERROR with the target path for not-found, not-a-file,
\* destination-is-file, folder-creation failure, destination-conflict and
\* move-failed, INFO for the unsupported-extension skip, INFO with source and
\* destination for a move; the call returns true for the last of these only
C13_OneEntryPerCall ==
    (mv.valid /\ stream) =>
        /\ Len(buf) = Len(attempts)
        /\ Len(mv.calls) = 1
        /\ buf[Len(buf)].level = mv.calls[1].level
        /\ buf[Len(buf)].msg = mv.calls[1].msg
        /\ buf[Len(buf)].paths = mv.calls[1].paths
        /\ buf[Len(buf)].level = SeverityInWords(MvOutcome)
        /\ buf[Len(buf)].paths = PathsInWords(MvOutcome)
        /\ mv.ret <=> MvOutcome = "moved"

\* two calls, the first a skip logged at INFO, the second a conflict logged at
\* ERROR
C13_Witness ==
    /\ mv.valid /\ stream /\ Len(buf) = 2
    /\ buf[1].level = "INFO" /\ buf[1].msg = "Skipping non-image file"
    /\ MvOutcome = "destination-conflict" /\ buf[2].level = "ERROR"

(***************************************************************************)
(* Properties of the invocations, read off the summaries in hist.          *)
(***************************************************************************)
MoveModes == {"scan", "files"}

\* C6: in folder-scan mode and in explicit-file mode the process exit status is 0
\* if and only if at least one file was moved during the invocation, and 1
\* otherwise
C6_ExitTellsAnyMoved ==
    \A i \in DOMAIN hist :
        hist[i].mode \in MoveModes =>
            /\ hist[i].status = "returned"
            /\ hist[i].exit = (IF hist[i].moved THEN 0 ELSE 1)

\* what C6 says, for the invocations that return from runApplication
C6_ReturnedExitTellsAnyMoved ==
    \A i \in DOMAIN hist :
        (hist[i].mode \in MoveModes /\ hist[i].status = "returned") =>
            hist[i].exit = (IF hist[i].moved THEN 0 ELSE 1)

NoDuplicates(seq) == \A i, j \in DOMAIN seq : seq[i] = seq[j] => i = j

\* the call of moveFileToFolder made by this step returned false
FailedCallStep == Len(attempts') = Len(attempts) + 1 /\ mv'.valid /\ ~mv'.ret

C7_State ==
    /\ pc = "files" => /\ idx <= Len(args) + 1
                       /\ attempts = SubSeq(args, 1, idx - 1)
    /\ pc = "scan" => /\ NoDuplicates(attempts)
                      /\ pending \cap visited = {}
                      /\ \A k \in DOMAIN attempts : Filename(attempts[k]) \in visited

C7_Step ==
    /\ (pc = "files" /\ pc' = "idle") => attempts = args
    /\ (pc = "files" /\ FailedCallStep) => pc' = "files" /\ idx' = idx + 1
    /\ (pc = "scan" /\ FailedCallStep) =>
            /\ pc' = "scan"
            /\ Filename(mv'.path) \in pending
            /\ pending' = pending \ {Filename(mv'.path)}
    /\ (pc = "scan" /\ pc' = "idle" /\ hist'[Len(hist')].status = "returned") => pending = {}

\* C7: in explicit-file mode moveFileToFolder is called exactly once for every
\* argument, in argument order, whatever the earlier calls returned; in folder-scan
\* mode a call that fails leaves the remaining entries to be visited, and no
\* entry is handed over twice
C7_EveryItemAttemptedOnce == [](C7_State) /\ [][C7_Step]_vars

\* an explicit-file invocation went on to its second argument after the first
\* had failed
C7_Witness ==
    /\ pc = "files" /\ Len(args) = 2 /\ idx = 3
    /\ attempts = args
    /\ mv.valid /\ mv.ret /\ ~(args[1] = args[2])
    /\ ~exists(mv.pre, args[1])

BothLogTokens(a) ==
    /\ Len(a) = 2
    /\ \E i \in DOMAIN a : IsShowToken(a[i])
    /\ \E i \in DOMAIN a : IsClearToken(a[i])

\* C8: when a show-log token and a clear-log token are given in one invocation,
\* the program prints the log as it was before the invocation and then truncates
\* it, so the log is empty afterwards
C8_ShowThenClear ==
    (pc = "idle" /\ hist # <<>> /\ BothLogTokens(hist[Len(hist)].args)) =>
        /\ hist[Len(hist)].shown.has
        /\ hist[Len(hist)].shown.lines = hist[Len(hist)].logBefore.lines
        /\ logFile.lines = <<>>

\* C9: a clear-log invocation that succeeds, followed immediately by a show-log
\* invocation, shows an empty or absent log
C9_ShowAfterClearIsEmpty ==
    \A i \in DOMAIN hist :
        (i > 1 /\ hist[i - 1].mode = "clear" /\ hist[i - 1].exit = 0 /\ hist[i].mode = "show")
            => hist[i].shown.lines = <<>>

\* C10: with one argument equal to a show-log token, the program prints the log
\* and exits 0 when the log file was present and readable before the invocation,
\* and reports absence and exits 1 when it did not exist or cannot be opened
C10_ShowLogExit ==
    \A i \in DOMAIN hist :
        hist[i].mode = "show" =>
            IF hist[i].logBefore.present /\ logPerm # "none"
            THEN /\ hist[i].exit = 0
                 /\ hist[i].shown.has
                 /\ hist[i].shown.lines = hist[i].logBefore.lines
            ELSE /\ hist[i].exit = 1
                 /\ ~hist[i].shown.has

\* the orders the files of seq can be processed in
Orders(seq) == {[i \in DOMAIN seq |-> seq[p[i]]] : p \in Permutations(DOMAIN seq)}

\* the calls made so far form a batch of distinct regular files, and they went
\* the way they go when the operating system carries out what it is asked
BatchDone ==
    /\ pc = "mover" /\ Len(attempts) >= 2
    /\ NoDuplicates(attempts)
    /\ \A k \in DOMAIN attempts : KindIn(fsAtStart, Resolve(attempts[k])) = "file"
    /\ fs = RunInOrder(fsAtStart, attempts).fs

FolderInWords(p) ==
    Append(SubSeq(Resolve(p), 1, Len(Resolve(p)) - 1), StemInWords(Filename(p)))
TargetInWords(p) == Append(FolderInWords(p), Filename(p))

\* no file of the batch lies where another one's destination folder or
\* destination file is to be, and no destination file is another one's folder
Unentangled(seq) ==
    \A i, j \in DOMAIN seq :
        i # j => /\ Resolve(seq[j]) \notin {FolderInWords(seq[i]), TargetInWords(seq[i])}
                 /\ TargetInWords(seq[j]) # FolderInWords(seq[i])

SameInEveryOrder ==
    \A o \in Orders(attempts) :
        /\ RunInOrder(fsAtStart, o).fs = fs
        /\ RunInOrder(fsAtStart, o).moved = RunInOrder(fsAtStart, attempts).moved

\* C17 as stated: for every file system and every batch of distinct files, the
\* set of files moved and the final file system are the same in every
\* processing order
C17_AsStated == BatchDone => SameInEveryOrder

\* C17 amended: the same, for the batches in which no file lies at the path of
\* another file's destination folder or destination file and no file's
\* destination file is another file's destination folder
C17_OrderInsensitiveWhenUnentangled ==
    (BatchDone /\ Unentangled(attempts)) => SameInEveryOrder

\* two files that share nothing were both moved, one into a folder that was
\* there before and one into a folder the call made
C17_Witness ==
    /\ BatchDone /\ Unentangled(attempts)
    /\ Cardinality(RunInOrder(fsAtStart, attempts).moved) = 2
    /\ \E k \in DOMAIN attempts : KindIn(fsAtStart, FolderInWords(attempts[k])) = "dir"
    /\ \E k \in DOMAIN attempts : KindIn(fsAtStart, FolderInWords(attempts[k])) = "none"

IsPrefix(a, b) == Len(a) <= Len(b) /\ SubSeq(b, 1, Len(a)) = a

LinesOf(lf) == {lf.lines[k] : k \in DOMAIN lf.lines}

\* C14: the log is append-only over any sequence of invocations: for every
\* invocation but a clear-log command the log before it is a prefix of the log
\* after it; a log that is not continued that way was truncated by a clear-log
\* command, which leaves none of the earlier lines; nothing changes the log
\* between two invocations
C14_AppendOnly ==
    /\ \A i \in DOMAIN hist :
          /\ hist[i].mode # "clear" =>
                /\ IsPrefix(hist[i].logBefore.lines, hist[i].logAfter.lines)
                /\ hist[i].logBefore.present => hist[i].logAfter.present
          /\ ~IsPrefix(hist[i].logBefore.lines, hist[i].logAfter.lines) =>
                hist[i].mode = "clear"
          /\ (hist[i].mode = "clear" /\ hist[i].exit = 0) =>
                LinesOf(hist[i].logAfter) \cap LinesOf(hist[i].logBefore) = {}
          /\ (hist[i].mode = "clear" /\ hist[i].exit # 0) =>
                hist[i].logAfter = hist[i].logBefore
          /\ i > 1 => hist[i].logBefore = hist[i - 1].logAfter
    /\ (pc = "idle" /\ hist # <<>>) => logFile = hist[Len(hist)].logAfter
    /\ pc \in MoveModes => logFile.lines = logAtStart.lines

\* a clear-log command truncated a log that held lines, and the explicit-file
\* invocation after it added its lines behind what the log then held
C14_Witness ==
    /\ Len(hist) = 2
    /\ hist[1].mode = "clear" /\ hist[1].exit = 0 /\ Len(hist[1].logBefore.lines) = 2
    /\ hist[2].mode = "files" /\ hist[2].logBefore.lines # <<>>
    /\ Len(hist[2].logAfter.lines) = Len(hist[2].logBefore.lines) + 2

(***************************************************************************)
(* The dispatch of runApplication.                                         *)
(***************************************************************************)
\* an invocation is launched by this step
Launches == pc = "idle" /\ (pc' # "idle" \/ Len(hist') > Len(hist))

\* the argument list and the mode of the invocation launched by this step
LaunchedArgs == IF pc' = "idle" THEN hist'[Len(hist')].args ELSE args'
LaunchedMode == IF pc' = "idle" THEN hist'[Len(hist')].mode ELSE pc'

\* the four spellings --show-log, /showlog, --clear-log, /clearlog
ShowInWords  == {RelPath(<<nShowLong>>), AbsPath(<<nShowShort>>)}
ClearInWords == {RelPath(<<nClearLong>>), AbsPath(<<nClearShort>>)}

\* the mode the argument list calls for
ModeInWords(f, a) ==
    IF Len(a) = 0 THEN "usage"
    ELSE IF Len(a) = 1 /\ a[1] \in ShowInWords THEN "show"
    ELSE IF Len(a) = 1 /\ a[1] \in ClearInWords THEN "clear"
    ELSE IF Len(a) = 1 /\ KindIn(f, Resolve(a[1])) = "dir" THEN "scan"
    ELSE "files"

NotAFileCalls(p) ==
    <<[level |-> "ERROR", msg |-> "Path is not a regular file.", paths |-> <<p>>]>>

C11_Step ==
    /\ Launches =>
          /\ LaunchedMode = ModeInWords(fs, LaunchedArgs)
          /\ LaunchedMode = "usage" => (hist'[Len(hist')].exit = 1 /\ fs' = fs)
          /\ LaunchedMode \in {"show", "clear"} => fs' = fs
    /\ pc \in MoveModes => pc' \in {pc, "idle"}
    /\ (pc \in MoveModes /\ pc' = "idle") => hist'[Len(hist')].mode = pc
    /\ pc = "files" => (pending' = {} /\ visited' = {})
    /\ (pc = "files" /\ pc' = "files" /\ KindIn(fs, Resolve(args[idx])) = "dir") =>
          /\ fs' = fs
          /\ ~mv'.ret
          /\ mv'.calls = NotAFileCalls(args[idx])

SupportedFilesIn(f, dir) ==
    {n \in TopNames : KindIn(f, Append(Resolve(dir), n)) = "file" /\ SupportedInWords(n)}

\* the lines an invocation added to the log
AppendedLines(h) ==
    SubSeq(h.logAfter.lines, Len(h.logBefore.lines) + 1, Len(h.logAfter.lines))

NoErrorAppended(h) ==
    \A k \in DOMAIN AppendedLines(h) : AppendedLines(h)[k].level # "ERROR"

Said(h, msg) == \E k \in DOMAIN h.said : h.said[k] = msg

\* nothing moved, file system as before, no ERROR line, the 'no image files
\* found' message, exit status 1
QuietScan(h) ==
    /\ ~h.moved
    /\ h.fsAfter = h.fsBefore
    /\ NoErrorAppended(h)
    /\ Said(h, "No image files found")
    /\ h.exit = 1

\* C15: a folder scan of a directory that is empty or whose regular files all
\* have unsupported extensions moves nothing, leaves the file system unchanged,
\* appends no ERROR line to the log, prints 'no image files found' and exits
\* with status 1
C15_NothingToMove ==
    \A i \in DOMAIN hist :
        (hist[i].mode = "scan" /\ SupportedFilesIn(hist[i].fsBefore, hist[i].args[1]) = {})
            => QuietScan(hist[i])

\* what C15 says, for the scans that return from runApplication
C15_ReturnedNothingToMove ==
    \A i \in DOMAIN hist :
        (/\ hist[i].mode = "scan" /\ hist[i].status = "returned"
         /\ SupportedFilesIn(hist[i].fsBefore, hist[i].args[1]) = {})
            => QuietScan(hist[i])

\* every supported regular file the scan found in its directory is at its
\* destination afterwards
AllMoved(h) ==
    /\ h.mode = "scan"
    /\ \A n \in SupportedFilesIn(h.fsBefore, h.args[1]) :
          LET d == Resolve(h.args[1])
          IN  /\ KindIn(h.fsAfter, Append(d, n)) = "none"
              /\ h.fsAfter[Append(Append(d, StemInWords(n)), n)] = h.fsBefore[Append(d, n)]

SecondScanIdle(i) ==
    /\ SupportedFilesIn(hist[i].fsBefore, hist[i].args[1]) = {}
    /\ hist[i].fsBefore = hist[i - 1].fsAfter
    /\ QuietScan(hist[i])

\* the running scan follows a scan of the same directory that moved every
\* supported regular file
AfterAllMoved ==
    /\ pc = "scan" /\ hist # <<>>
    /\ AllMoved(hist[Len(hist)]) /\ hist[Len(hist)].args = args

\* C16: a folder scan of D that follows a folder scan of D in which every
\* supported regular file was moved finds no supported regular file in D, calls
\* moveFileToFolder for nothing, logs no ERROR, leaves the file system as the
\* first scan left it and exits with status 1
C16_SecondScanIdle ==
    /\ \A i \in DOMAIN hist :
          (i > 1 /\ AllMoved(hist[i - 1]) /\ hist[i].mode = "scan"
                 /\ hist[i].args = hist[i - 1].args) => SecondScanIdle(i)
    /\ AfterAllMoved => (attempts = <<>> /\ fs = fsAtStart)

\* what C16 says, for the second scans that return from runApplication
C16_ReturnedSecondScanIdle ==
    /\ \A i \in DOMAIN hist :
          (i > 1 /\ AllMoved(hist[i - 1]) /\ hist[i].mode = "scan"
                 /\ hist[i].status = "returned"
                 /\ hist[i].args = hist[i - 1].args) => SecondScanIdle(i)
    /\ AfterAllMoved => (attempts = <<>> /\ fs = fsAtStart)

\* the loop of the running scan has come to the end of a listing it could open
ListedToTheEnd == pc = "scan" /\ ~ec /\ pending = {}

\* the names of the regular files right inside dir
RegularFilesIn(f, dir) == {n \in TopNames : KindIn(f, Append(Resolve(dir), n)) = "file"}

AttemptedPaths == {attempts[k] : k \in DOMAIN attempts}

SkipLogged(p) ==
    \E k \in DOMAIN buf :
        /\ buf[k].level = "INFO" /\ buf[k].msg = "Skipping non-image file"
        /\ buf[k].paths = <<p>>

\* C18: in a folder scan every immediate entry that is a regular file is handed
\* to moveFileToFolder whatever its extension, each unsupported one giving one
\* INFO 'skipping' line, and no entry that is not a regular file is handed over
C18_EveryRegularFileHandedOver ==
    ListedToTheEnd =>
        /\ \A n \in RegularFilesIn(fsAtStart, args[1]) :
              /\ Join(args[1], n) \in AttemptedPaths
              /\ ~SupportedInWords(n) => SkipLogged(Join(args[1], n))
        /\ \A p \in AttemptedPaths : KindIn(fsAtStart, Resolve(p)) = "file"

\* what the scan does instead: the supported regular files are handed over, no
\* other entry is, and no 'skipping' line is written
C18_OnlySupportedFilesHandedOver ==
    ListedToTheEnd =>
        /\ AttemptedPaths = {Join(args[1], n) : n \in SupportedFilesIn(fsAtStart, args[1])}
        /\ \A n \in TopNames : ~SkipLogged(Join(args[1], n))

ScanErrorLines(h) ==
    {k \in DOMAIN AppendedLines(h) :
        /\ AppendedLines(h)[k].level = "ERROR"
        /\ AppendedLines(h)[k].paths = <<h.args[1]>>}

\* C19: when the operating system reports an error while the directory is
\* listed (at the opening of the listing or at an advance), the scan is aborted,
\* one ERROR entry naming the directory is logged, the failure is reported on
\* the console and processDirectory returns false (exit status 1); the error is
\* never taken for an empty directory
C19_EnumerationErrorReported ==
    \A i \in DOMAIN hist :
        (hist[i].mode = "scan" /\ (hist[i].ec \/ hist[i].status = "aborted")) =>
            /\ hist[i].status = "returned"
            /\ hist[i].exit = 1
            /\ Cardinality(ScanErrorLines(hist[i])) = 1
            /\ Said(hist[i], "Failed to scan directory")
            /\ ~Said(hist[i], "No image files found")

\* the places below the immediate entries of the directory dir
Below(dir) ==
    {q \in Universe : Len(q) > Len(Resolve(dir)) + 1
                        /\ SubSeq(q, 1, Len(Resolve(dir))) = Resolve(dir)}

C20_State ==
    pc = "scan" =>
        /\ NoDuplicates(attempts)
        /\ \A p \in AttemptedPaths :
              /\ Len(Resolve(p)) = Len(Resolve(args[1])) + 1
              /\ SubSeq(Resolve(p), 1, Len(Resolve(args[1]))) = Resolve(args[1])
        /\ \A q \in Below(args[1]) : fsAtStart[q] # Absent => fs[q] = fsAtStart[q]

C20_Step ==
    pc = "scan" => \A q \in Below(args[1]) : fs[q] # Absent => fs'[q] = fs[q]

\* C20: a folder scan of D hands only immediate entries of D to
\* moveFileToFolder, each at most once; nothing that is inside a subfolder of D,
\* a destination folder made earlier in the same scan included, is moved or
\* changed
C20_NonRecursive == [](C20_State) /\ [][C20_Step]_vars

\* the listing yielded a destination folder that this scan had made, a file
\* moved in this scan and a file that was in a subfolder before are in place
C20_Witness ==
    /\ ListedToTheEnd
    /\ \E n \in visited :
          /\ KindIn(fsAtStart, Append(Resolve(args[1]), n)) = "none"
          /\ KindIn(fs, Append(Resolve(args[1]), n)) = "dir"
          /\ \E q \in Below(args[1]) : q[Len(Resolve(args[1])) + 1] = n /\ fs[q].kind = "file"
    /\ \E q \in Below(args[1]) : fsAtStart[q].kind = "file" /\ fs[q] = fsAtStart[q]

(***************************************************************************)
(* Properties of moveFileToFolder next to another process.                 *)
(***************************************************************************)
RaceSource == Resolve(args[1])
RaceFolder == Append(SubSeq(RaceSource, 1, Len(RaceSource) - 1),
                     StemInWords(RaceSource[Len(RaceSource)]))
RaceTarget == Append(RaceFolder, RaceSource[Len(RaceSource)])

KeepsFiles == \A q \in Universe : (fs[q].kind = "file" /\ q # RaceSource) => fs'[q] = fs[q]

C21_Step ==
    /\ KeepsFiles
    /\ (pc = "rename" /\ pc' = "returned" /\ mv'.ret) =>
          /\ fs[RaceTarget] = Absent
          /\ fs'[RaceTarget] = fs[RaceSource]
          /\ fs'[RaceSource] = Absent
    /\ (pc' = "returned" /\ ~mv'.ret) => fs'[RaceSource] = fs[RaceSource]

\* C21: no call of moveFileToFolder overwrites or destroys a file that is at the
\* destination path, even one that another process puts there between the
\* destination test and the rename: that file keeps its content, and the source
\* file is moved onto a free path or stays where it was
C21_NeverOverwrites == [][C21_Step]_vars

\* what holds in every build: a file is only ever replaced at the destination
\* path, by the rename, and only a file that came after the destination test
C21_ReplacesOnlyLateFile ==
    [][KeepsFiles \/ (/\ pc = "rename"
                      /\ mv.checked[RaceTarget] = Absent
                      /\ fs[RaceTarget] = OtherFile
                      /\ \A q \in Universe \ {RaceSource, RaceTarget} : fs'[q] = fs[q])]_vars

\* the folder was absent when ensureDirectory tested it and is the other
\* process's now
FolderRaced == KindIn(mv.seen, RaceFolder) = "none" /\ fs[RaceFolder] = OtherDirectory

ErrorsNaming(calls, q) ==
    {k \in DOMAIN calls : calls[k].level = "ERROR" /\ calls[k].paths = <<AbsPath(q)>>}

C22_State ==
    (pc = "returned" /\ mv.seen # <<>> /\ FolderRaced) =>
        /\ ErrorsNaming(mv.calls, RaceFolder) = {}
        /\ mv.ret => /\ fs[RaceTarget] = mv.pre[RaceSource]
                      /\ fs[RaceSource] = Absent
        /\ (KindIn(mv.checked, RaceTarget) = "none" /\ mv.rnOk /\ fs[RaceTarget] # OtherFile)
               => mv.ret

C22_Step ==
    (pc = "create" /\ pc' # "create" /\ fs[RaceFolder] = OtherDirectory) =>
        /\ pc' = "destination"
        /\ buf' = buf
        /\ fs' = fs

\* C22: when another process makes the destination folder after ensureDirectory
\* has found it absent and before ensureDirectory's own creation runs,
\* ensureDirectory still returns true, logs no ERROR, and the file is moved into
\* the folder the other process made
C22_CreationRaceIsSuccess == [](C22_State) /\ [][C22_Step]_vars

\* the folder came from the other process after the test, and the file is in it
C22_Witness ==
    /\ pc = "returned" /\ mv.seen # <<>> /\ FolderRaced
    /\ mv.ret /\ fs[RaceTarget] = mv.pre[RaceSource]

====
